---- MODULE Spec2Model ----
(***************************************************************************)
(* Light Loss Analyzer (package light_analyzer).                           *)
(*                                                                         *)
(* Two specifications over one set of variables:                           *)
(*   Spec      the Tk application: image load, ROI drag, zoom, Analyze.    *)
(*   SpecCalls the library functions of analysis.py and info_system.py     *)
(*             called directly on enumerated arguments.                    *)
(*                                                                         *)
(* Number representation.  Python floats are modelled exactly:             *)
(*   - a rational is a pair <<n, d>> in lowest terms with d > 0;           *)
(*     <<0, 0>> is NaN (every comparison with it is false);                *)
(*   - an intensity array is [tag, scale, v]: sample i is v[i]/scale,      *)
(*     v[i] an integer.  Image data has scale 1; scale Nano gives samples  *)
(*     around the 1e-9 thresholds; a smoothed array has scale w*scale;     *)
(*   - 10*log10 is a fixed-point table at 0.1 dB resolution.               *)
(* Python objects are records with a tag field; None is [tag |-> "None"].  *)
(* Array indices are 0-based as in the source: a[i] is a.v[i + 1].         *)
(***************************************************************************)
EXTENDS Integers, Sequences, FiniteSets, TLC

VARIABLES
    call,                   \* SpecCalls: the library call made and its result
    original_image,         \* ImageCanvas.original_image
    display_image_obj,      \* ImageCanvas.display_image_obj (its size)
    display_scale_factor,   \* ImageCanvas.display_scale_factor
    canvas_zoom_level,      \* ImageCanvas.canvas_zoom_level
    roi_coords,             \* ImageCanvas.roi_coords
    roi_rect_id,            \* ImageCanvas.roi_rect_id: TRUE when a rectangle is on the canvas
    start_xy,               \* ImageCanvas.start_x, start_y while button 1 is held
    mouse_down,             \* the pointer: button 1 is held since a press on the canvas
    btn_analyze,            \* LightAnalyzerApp.btn_analyze state
    fit_params,             \* LightAnalyzerApp.fit_params
    intensity_profile,      \* LightAnalyzerApp.intensity_profile
    intensity_profile_db,   \* LightAnalyzerApp.intensity_profile_db
    valid_db_indices,       \* LightAnalyzerApp.valid_db_indices
    smoothed_profile,       \* LightAnalyzerApp.smoothed_profile
    smoothed_profile_db,    \* LightAnalyzerApp.smoothed_profile_db
    x_data,                 \* LightAnalyzerApp.x_data
    info_text,              \* LightAnalyzerApp.info_text contents
    lbl_plot_status,        \* LightAnalyzerApp.lbl_plot_status text
    run,                    \* the trace of the _analyze_action whose results stand
    failed_before           \* an earlier _analyze_action ended in its except branch

canvasVars == <<original_image, display_image_obj, display_scale_factor,
                canvas_zoom_level, roi_coords, roi_rect_id, start_xy>>

resultVars == <<fit_params, intensity_profile, intensity_profile_db, valid_db_indices,
                smoothed_profile, smoothed_profile_db, x_data, info_text, lbl_plot_status,
                run>>

appVars == <<canvasVars, mouse_down, btn_analyze, resultVars, failed_before>>

vars == <<call, appVars>>

-----------------------------------------------------------------------------
(* Bounds of the model *)

MaxCols == 2        \* widest one-row image enumerated exhaustively
MaxSample == 1      \* largest sample of the intensity profiles enumerated in SpecCalls
MaxLength == 2      \* largest length (units) typed into the entry
MaxZoom == 1        \* zoom_in / zoom_out steps away from 1.0
MaxLen == 3         \* longest array argument enumerated in SpecCalls
MaxDim == 2         \* most rows and columns of the 2-D arrays enumerated in SpecCalls
MaxCanvas == 8      \* widest zoomed image whose every canvas coordinate is enumerated
Pixels == {0, 1}    \* pixel values of the exhaustively enumerated images and 2-D arrays

-----------------------------------------------------------------------------
(* Python values *)

None == [tag |-> "None"]

IsNone(x) == x.tag = "None"

Raise(exc) == [tag |-> "raise", exc |-> exc]

IsRaise(x) == x.tag = "raise"

\* a 1-D float array of samples v[i]/scale
Arr(scale, v) == [tag |-> "array", scale |-> scale, v |-> v]

\* a 1-D array of rationals (positions, dB values) or of integer indices
Vec(v) == [tag |-> "array", v |-> v]

\* a 2-D uint8 array, rows top to bottom
Arr2(h, w, px) == [tag |-> "array2", h |-> h, w |-> w, px |-> px]

PyLen(a) == Len(a.v)

\* a float returned where None may be returned instead
Float(p) == [tag |-> "float", val |-> p]

\* a str: the sequence of its messages, each carrying the values its text is
\* formatted from; a fixed string is one message
Str(msgs) == [tag |-> "str", msgs |-> msgs]

Text(s) == Str(<<[tag |-> s]>>)

-----------------------------------------------------------------------------
(* Exact rational arithmetic for the float computations *)

RECURSIVE GCD(_, _)
GCD(a, b) == IF b = 0 THEN a ELSE GCD(b, a % b)

Abs(a) == IF a < 0 THEN -a ELSE a

Rat(n, d) ==
    IF d = 0 THEN <<0, 0>>
    ELSE LET g == GCD(Abs(n), Abs(d))
             s == IF d < 0 THEN -1 ELSE 1
         IN  <<s * (n \div g), s * (d \div g)>>

NaN == <<0, 0>>

IsNaN(p) == p[2] = 0

RInt(n) == <<n, 1>>

RNeg(p) == <<-p[1], p[2]>>

RAbs(p) == <<Abs(p[1]), p[2]>>

RAdd(p, q) ==
    IF IsNaN(p) \/ IsNaN(q) THEN NaN
    ELSE LET l == (p[2] \div GCD(p[2], q[2])) * q[2]
         IN  Rat(p[1] * (l \div p[2]) + q[1] * (l \div q[2]), l)

RSub(p, q) == RAdd(p, RNeg(q))

RMul(p, q) ==
    IF IsNaN(p) \/ IsNaN(q) THEN NaN
    ELSE LET g1 == GCD(Abs(p[1]), q[2])
             g2 == GCD(Abs(q[1]), p[2])
         IN  Rat((p[1] \div g1) * (q[1] \div g2), (p[2] \div g2) * (q[2] \div g1))

\* q = 0 gives NaN: the model never divides a nonzero float by zero
RDiv(p, q) ==
    IF IsNaN(p) \/ IsNaN(q) \/ q[1] = 0 THEN NaN
    ELSE RMul(p, Rat(q[2], q[1]))

RLt(p, q) == ~IsNaN(p) /\ ~IsNaN(q) /\ p[1] * q[2] < q[1] * p[2]

RLe(p, q) == ~IsNaN(p) /\ ~IsNaN(q) /\ p[1] * q[2] <= q[1] * p[2]

RGt(p, q) == RLt(q, p)

RECURSIVE RSum(_)
RSum(s) == IF s = <<>> THEN RInt(0) ELSE RAdd(s[1], RSum(Tail(s)))

RECURSIVE ISum(_)
ISum(s) == IF s = <<>> THEN 0 ELSE s[1] + ISum(Tail(s))

RECURSIVE IMax(_)
IMax(s) == IF Len(s) = 1 THEN s[1]
           ELSE LET m == IMax(Tail(s)) IN IF s[1] > m THEN s[1] ELSE m

RECURSIVE IMin(_)
IMin(s) == IF Len(s) = 1 THEN s[1]
           ELSE LET m == IMin(Tail(s)) IN IF s[1] < m THEN s[1] ELSE m

\* 1e-9 is 1/Nano.  For integers a and b > 0:  a/b > 1e-9  <=>  a > b \div Nano,
\* which is how the 1e-9 comparisons are written (no product leaves 32 bits).
Nano == 1000000000

\* p <= 1e-15 and p < 1e-15 for a rational whose denominator is below 1e15 (every
\* denominator of the model is): a positive p is at least 1/d > 1e-15
LeTiny15(p) == ~IsNaN(p) /\ p[1] <= 0

LtTiny15(p) == ~IsNaN(p) /\ p[1] <= 0

-----------------------------------------------------------------------------
(* analysis.py *)

\* the sum taken along the rows (axis=1) instead
SumAxis0_axis1(px, w) == [i \in 1..Len(px) |-> ISum(px[i])]

\* np.sum(roi_image_data, axis=0): the rows added element by element
RECURSIVE SumAxis0(_, _)
SumAxis0(px, w) ==
    IF px = <<>> THEN [j \in 1..w |-> 0]
    ELSE LET rest == SumAxis0(Tail(px), w)
         IN  [j \in 1..w |-> px[1][j] + rest[j]]

get_intensity_profile(roi_image_data) ==
    IF IsNone(roi_image_data) \/ roi_image_data.h * roi_image_data.w = 0
    THEN None
    ELSE Arr(1, SumAxis0(roi_image_data.px, roi_image_data.w))

\* np.pad(data, pad_size) with zeros (mode='constant')
PadEdge_zero(v, pad_size) ==
    [i \in 1..(Len(v) + 2 * pad_size) |->
        IF i <= pad_size \/ i > pad_size + Len(v) THEN 0 ELSE v[i - pad_size]]

\* np.pad(data, pad_size, mode='edge')
PadEdge(v, pad_size) ==
    [i \in 1..(Len(v) + 2 * pad_size) |->
        IF i <= pad_size THEN v[1]
        ELSE IF i > pad_size + Len(v) THEN v[Len(v)]
        ELSE v[i - pad_size]]

\* np.convolve(padded, ones(w)/w, mode='valid'): the window sums, each over w
ConvolveValid(padded, w) ==
    [i \in 1..(Len(padded) - w + 1) |-> ISum(SubSeq(padded, i, i + w - 1))]

\* the len(data) < window_size test of line 23 weakened to a test for no data
moving_average_any_length(data, window_size) ==
    IF window_size < 1 \/ window_size % 2 = 0
    THEN [value |-> data, warned |-> window_size # 1]
    ELSE IF PyLen(data) = 0
    THEN [value |-> data, warned |-> FALSE]
    ELSE LET pad_size == window_size \div 2
             padded_data == PadEdge(data.v, pad_size)
         IN  [value |-> Arr(data.scale * window_size,
                            ConvolveValid(padded_data, window_size)),
              warned |-> FALSE]

\* the returned record also says whether the warning of line 21 was printed
moving_average(data, window_size) ==
    IF window_size < 1 \/ window_size % 2 = 0
    THEN [value |-> data, warned |-> window_size # 1]
    ELSE IF PyLen(data) < window_size
    THEN [value |-> data, warned |-> FALSE]
    ELSE LET pad_size == window_size \div 2
             padded_data == PadEdge(data.v, pad_size)
         IN  [value |-> Arr(data.scale * window_size,
                            ConvolveValid(padded_data, window_size)),
              warned |-> FALSE]

\* 100*log10(n) rounded, n = 1..40: 10*log10 in units of 0.1 dB
LogTable ==
    <<0, 30, 48, 60, 70, 78, 85, 90, 95, 100,
      104, 108, 111, 115, 118, 120, 123, 126, 128, 130,
      132, 134, 136, 138, 140, 141, 143, 145, 146, 148,
      149, 151, 152, 153, 154, 156, 157, 158, 159, 160>>

RECURSIVE Log10x(_)
Log10x(n) == IF n > 40 /\ n % 10 = 0 THEN 100 + Log10x(n \div 10) ELSE LogTable[n]

\* 10 * np.log10(a): the sample not divided by the peak
Db10_raw(a, peak) == Rat(Log10x(a), 10)

\* 10 * np.log10(a / peak) for integers a, peak > 0, in dB
Db10(a, peak) == Rat(Log10x(a) - Log10x(peak), 10)

\* the filter applied to the raw sample (a > 0) instead of the normalized one
RECURSIVE WhereAbove_raw(_, _, _)
WhereAbove_raw(v, peak, i) ==
    IF i > Len(v) THEN <<>>
    ELSE (IF v[i] > 0 THEN <<i - 1>> ELSE <<>>) \o WhereAbove_raw(v, peak, i + 1)

\* np.where(normalized_profile > 1e-9)[0]: a / peak > 1e-9 <=> a > peak / Nano
RECURSIVE WhereAbove(_, _, _)
WhereAbove(v, peak, i) ==
    IF i > Len(v) THEN <<>>
    ELSE (IF v[i] > peak \div Nano THEN <<i - 1>> ELSE <<>>) \o WhereAbove(v, peak, i + 1)

\* the peak guard written as peak_intensity <= 0
calculate_db_profile_zero_peak(intensity_profile_) ==
    IF IsNone(intensity_profile_) \/ PyLen(intensity_profile_) = 0
    THEN <<None, None>>
    ELSE LET v == intensity_profile_.v
             peak_intensity == IMax(v)
         IN  IF peak_intensity <= 0
             THEN <<None, None>>
             ELSE LET valid_indices == WhereAbove(v, peak_intensity, 1)
                  IN  IF Len(valid_indices) = 0
                      THEN <<None, None>>
                      ELSE <<Vec([k \in 1..Len(valid_indices) |->
                                     Db10(v[valid_indices[k] + 1], peak_intensity)]),
                             Vec(valid_indices)>>

calculate_db_profile(intensity_profile_) ==
    IF IsNone(intensity_profile_) \/ PyLen(intensity_profile_) = 0
    THEN <<None, None>>
    ELSE LET v == intensity_profile_.v
             peak_intensity == IMax(v)
         IN  IF peak_intensity <= intensity_profile_.scale \div Nano
             THEN <<None, None>>
             ELSE LET valid_indices == WhereAbove(v, peak_intensity, 1)
                  IN  IF Len(valid_indices) = 0
                      THEN <<None, None>>
                      ELSE <<Vec([k \in 1..Len(valid_indices) |->
                                     Db10(v[valid_indices[k] + 1], peak_intensity)]),
                             Vec(valid_indices)>>

\* the least-squares slope with the mean of y as the intercept
Polyfit1_mean_intercept(x, y) ==
    LET n == RInt(Len(x))
        sx == RSum(x)
        sy == RSum(y)
        sxx == RSum([i \in 1..Len(x) |-> RMul(x[i], x[i])])
        sxy == RSum([i \in 1..Len(x) |-> RMul(x[i], y[i])])
        slope == RDiv(RSub(RMul(n, sxy), RMul(sx, sy)),
                      RSub(RMul(n, sxx), RMul(sx, sx)))
    IN  <<slope, RDiv(sy, n)>>

\* the least-squares line with the sign of the slope lost
Polyfit1_negated(x, y) ==
    LET n == RInt(Len(x))
        sx == RSum(x)
        sy == RSum(y)
        sxx == RSum([i \in 1..Len(x) |-> RMul(x[i], x[i])])
        sxy == RSum([i \in 1..Len(x) |-> RMul(x[i], y[i])])
        slope == RDiv(RSub(RMul(sx, sy), RMul(n, sxy)),
                      RSub(RMul(n, sxx), RMul(sx, sx)))
        intercept == RDiv(RSub(sy, RMul(slope, sx)), n)
    IN  <<slope, intercept>>

\* np.polyfit(x, y, 1) for positions that are not all equal: the least-squares line
Polyfit1(x, y) ==
    LET n == RInt(Len(x))
        sx == RSum(x)
        sy == RSum(y)
        sxx == RSum([i \in 1..Len(x) |-> RMul(x[i], x[i])])
        sxy == RSum([i \in 1..Len(x) |-> RMul(x[i], y[i])])
        slope == RDiv(RSub(RMul(n, sxy), RMul(sx, sy)),
                      RSub(RMul(n, sxx), RMul(sx, sx)))
        intercept == RDiv(RSub(sy, RMul(slope, sx)), n)
    IN  <<slope, intercept>>

\* the guard written as len(x_data) < 1
fit_linear_db_one_point(x_data_, profile_db) ==
    IF \/ IsNone(x_data_)
       \/ IsNone(profile_db)
       \/ PyLen(x_data_) # PyLen(profile_db)
       \/ PyLen(x_data_) < 1
    THEN Raise("ValueError")
    ELSE LET p == Polyfit1(x_data_.v, profile_db.v)
         IN  [tag |-> "dict", slope_db |-> p[1], intercept_db |-> p[2]]

fit_linear_db(x_data_, profile_db) ==
    IF \/ IsNone(x_data_)
       \/ IsNone(profile_db)
       \/ PyLen(x_data_) # PyLen(profile_db)
       \/ PyLen(x_data_) < 2
    THEN Raise("ValueError")
    ELSE LET p == Polyfit1(x_data_.v, profile_db.v)
         IN  [tag |-> "dict", slope_db |-> p[1], intercept_db |-> p[2]]

\* numpy broadcasting of two 1-D arrays: equal lengths, or one of length 1
Broadcastable(a, b) == Len(a) = Len(b) \/ Len(a) = 1 \/ Len(b) = 1

BroadcastLen(a, b) == IF Len(a) = 1 THEN Len(b) ELSE Len(a)

At(a, i) == IF Len(a) = 1 THEN a[1] ELSE a[i]

\* np.mean: NaN for an empty array
RMean(s) == IF s = <<>> THEN NaN ELSE RDiv(RSum(s), RInt(Len(s)))

\* the zero-variance case answered 1.0 whatever the residual
calculate_r_squared_linear_always_one(x_data_, y_data, fit_params_) ==
    IF \/ IsNone(fit_params_)
       \/ DOMAIN fit_params_ = {"tag"}
       \/ "slope_db" \notin DOMAIN fit_params_
       \/ IsNone(x_data_)
       \/ IsNone(y_data)
       \/ PyLen(x_data_) = 0
    THEN None
    ELSE IF "intercept_db" \notin DOMAIN fit_params_ \/ ~Broadcastable(x_data_.v, y_data.v)
    THEN None    \* KeyError / broadcasting ValueError, caught at line 99
    ELSE LET slope == fit_params_.slope_db
             intercept == fit_params_.intercept_db
             x == x_data_.v
             y == y_data.v
             n == BroadcastLen(x, y)
             residuals == [i \in 1..n |->
                              RSub(At(y, i), RAdd(RMul(slope, At(x, i)), intercept))]
             ss_res == RSum([i \in 1..n |-> RMul(residuals[i], residuals[i])])
             mean == RMean(y)
             ss_tot == RSum([i \in 1..Len(y) |->
                                RMul(RSub(y[i], mean), RSub(y[i], mean))])
         IN  IF LeTiny15(ss_tot)
             THEN Float(RInt(1))
             ELSE Float(RSub(RInt(1), RDiv(ss_res, ss_tot)))

calculate_r_squared_linear(x_data_, y_data, fit_params_) ==
    IF \/ IsNone(fit_params_)
       \/ DOMAIN fit_params_ = {"tag"}
       \/ "slope_db" \notin DOMAIN fit_params_
       \/ IsNone(x_data_)
       \/ IsNone(y_data)
       \/ PyLen(x_data_) = 0
    THEN None
    ELSE IF "intercept_db" \notin DOMAIN fit_params_ \/ ~Broadcastable(x_data_.v, y_data.v)
    THEN None    \* KeyError / broadcasting ValueError, caught at line 99
    ELSE LET slope == fit_params_.slope_db
             intercept == fit_params_.intercept_db
             x == x_data_.v
             y == y_data.v
             n == BroadcastLen(x, y)
             residuals == [i \in 1..n |->
                              RSub(At(y, i), RAdd(RMul(slope, At(x, i)), intercept))]
             ss_res == RSum([i \in 1..n |-> RMul(residuals[i], residuals[i])])
             mean == RMean(y)
             ss_tot == RSum([i \in 1..Len(y) |->
                                RMul(RSub(y[i], mean), RSub(y[i], mean))])
         IN  IF LeTiny15(ss_tot)
             THEN (IF LtTiny15(ss_res) THEN Float(RInt(1)) ELSE Float(RInt(0)))
             ELSE Float(RSub(RInt(1), RDiv(ss_res, ss_tot)))

-----------------------------------------------------------------------------
(* config.py *)

SMOOTHING_WINDOW == 5

INFO_R_SQUARED_THRESHOLD == Rat(1, 2)

INFO_SLOPE_NEAR_ZERO_THRESHOLD == Rat(1, 100)

-----------------------------------------------------------------------------
(* info_system.py *)

arbitrary_saturation_threshold == 60000

\* np.diff
Diff(v) == [i \in 1..(Len(v) - 1) |-> v[i + 1] - v[i]]

\* np.std(d)^2 (population variance), in squared sample units
Variance(d) ==
    LET m == Len(d)
        s1 == ISum(d)
        s2 == ISum([i \in 1..m |-> d[i] * d[i]])
    IN  Rat(m * s2 - s1 * s1, m * m)

\* signal_range > 1e-9 and noise_metric / signal_range > 0.5, the second compared
\* through its square: std / range > 1/2  <=>  4 * std^2 > range^2
HighNoise(profile) ==
    LET v == profile.v
        signal_range == IMax(v) - IMin(v)
    IN  /\ signal_range > profile.scale \div Nano
        /\ RGt(RMul(RInt(4), Variance(Diff(v))), RInt(signal_range * signal_range))

\* np.max(intensity_profile) >= arbitrary_saturation_threshold
Saturated(profile) == IMax(profile.v) \div profile.scale >= arbitrary_saturation_threshold

\* rule 1 with r_squared <= INFO_R_SQUARED_THRESHOLD
RSquaredFeedback_le(r_squared) ==
    IF RLe(r_squared, INFO_R_SQUARED_THRESHOLD)
    THEN <<[tag |-> "poor_fit", r_squared |-> r_squared]>>
    ELSE <<[tag |-> "good_fit", r_squared |-> r_squared]>>

\* rule 1, lines 17-28
RSquaredFeedback(r_squared) ==
    IF RLt(r_squared, INFO_R_SQUARED_THRESHOLD)
    THEN <<[tag |-> "poor_fit", r_squared |-> r_squared]>>
    ELSE <<[tag |-> "good_fit", r_squared |-> r_squared]>>

\* rule 2 with loss_alpha_db = slope_db
SlopeFeedback_signed(slope_db) ==
    IF RLt(RAbs(slope_db), INFO_SLOPE_NEAR_ZERO_THRESHOLD)
    THEN <<[tag |-> "near_zero", abs_slope |-> RAbs(slope_db)]>>
    ELSE IF RGt(slope_db, RInt(0))
    THEN <<[tag |-> "gain", slope_db |-> slope_db]>>
    ELSE <<[tag |-> "loss", slope_db |-> slope_db, loss_alpha_db |-> slope_db]>>

\* rule 2, lines 30-53
SlopeFeedback(slope_db) ==
    IF RLt(RAbs(slope_db), INFO_SLOPE_NEAR_ZERO_THRESHOLD)
    THEN <<[tag |-> "near_zero", abs_slope |-> RAbs(slope_db)]>>
    ELSE IF RGt(slope_db, RInt(0))
    THEN <<[tag |-> "gain", slope_db |-> slope_db]>>
    ELSE <<[tag |-> "loss", slope_db |-> slope_db, loss_alpha_db |-> RNeg(slope_db)]>>

\* rule 3, lines 55-67
NoiseFeedback(profile) ==
    IF PyLen(profile) > 1 /\ HighNoise(profile)
    THEN <<[tag |-> "high_noise"]>>
    ELSE <<>>

\* rule 4, lines 69-88
SaturationFeedback(profile) ==
    IF Saturated(profile)
    THEN <<[tag |-> "saturation", max |-> IMax(profile.v)]>>
    ELSE <<>>

\* rule 4 tested only when rule 3 did not fire (elif)
generate_feedback_elif(fit_params_, intensity_profile_, x_data_) ==
    IF \/ IsNone(fit_params_)
       \/ DOMAIN fit_params_ = {"tag"}
       \/ "r_squared" \notin DOMAIN fit_params_
       \/ "slope_db" \notin DOMAIN fit_params_
       \/ IsNone(intensity_profile_)
    THEN Text("Analysis not complete or fit failed.")
    ELSE IF PyLen(intensity_profile_) = 0
    THEN Raise("ValueError")
    ELSE LET noise == NoiseFeedback(intensity_profile_)
             feedback == RSquaredFeedback(fit_params_.r_squared)
                         \o SlopeFeedback(fit_params_.slope_db)
                         \o noise
                         \o (IF noise = <<>> THEN SaturationFeedback(intensity_profile_)
                             ELSE <<>>)
         IN  Str(feedback)

\* "\n\n".join(feedback) is the sequence of the messages
generate_feedback(fit_params_, intensity_profile_, x_data_) ==
    IF \/ IsNone(fit_params_)
       \/ DOMAIN fit_params_ = {"tag"}
       \/ "r_squared" \notin DOMAIN fit_params_
       \/ "slope_db" \notin DOMAIN fit_params_
       \/ IsNone(intensity_profile_)
    THEN Text("Analysis not complete or fit failed.")
    ELSE IF PyLen(intensity_profile_) = 0
    THEN Raise("ValueError")     \* np.max of an empty array, line 80
    ELSE LET feedback == RSquaredFeedback(fit_params_.r_squared)
                         \o SlopeFeedback(fit_params_.slope_db)
                         \o NoiseFeedback(intensity_profile_)
                         \o SaturationFeedback(intensity_profile_)
         IN  IF feedback = <<>>
             THEN Text("Analysis complete. Fit appears reasonable based on R2 and slope.")
             ELSE Str(feedback)

-----------------------------------------------------------------------------
(* Arguments enumerated for the library calls *)

SeqsUpTo(S, n) == UNION {[1..k -> S] : k \in 0..n}

\* 2-D uint8 arrays: every array of up to MaxDim x MaxDim pixels (empty ones
\* included), the 2 x 3 array of the extraction example, and a column of 255s
RoiArrays ==
    {None}
    \cup {Arr2(h, w, px) : h \in {0}, w \in 0..MaxDim, px \in {<<>>}}
    \cup UNION {UNION {{Arr2(h, w, px) : px \in [1..h -> [1..w -> Pixels]]}
                       : w \in 0..MaxDim} : h \in 1..MaxDim}
    \cup {Arr2(2, 3, <<(<<1, 2, 3>>), (<<4, 5, 6>>)>>), Arr2(2, 1, <<(<<255>>), (<<255>>)>>)}

\* intensity profiles: samples -1/s .. MaxSample/s, Nano/s and 2*Nano/s at the
\* scales s = 1 and s = Nano, so that sample/peak and peak meet 1e-9 exactly
SampleValues == (-1..MaxSample) \cup {Nano, 2 * Nano}

Profiles ==
    {None} \cup {Arr(s, v) : s \in {1, Nano}, v \in SeqsUpTo(SampleValues, MaxLen)}

\* strictly increasing position arrays and dB arrays for the fitter
Positions ==
    {Vec([i \in 1..Len(v) |-> RInt(v[i])]) :
        v \in {u \in SeqsUpTo(0..MaxLen, MaxLen) :
                  \A i \in 1..(Len(u) - 1) : u[i] < u[i + 1]}}

DbArrays ==
    {Vec([i \in 1..Len(v) |-> Rat(v[i], 10)]) : v \in SeqsUpTo({0, -30, -60}, MaxLen)}

\* fit parameters as the feedback generator may receive them
RSquaredValues == {NaN, Rat(-1, 2), RInt(0), Rat(3, 10), Rat(1, 2), Rat(9, 10), RInt(1)}

SlopeValues ==
    {RInt(-2), Rat(-1, 100), Rat(-1, 200), RInt(0), Rat(1, 10000), Rat(1, 100), RInt(2)}

FitDicts ==
    {None, [tag |-> "dict"], [tag |-> "dict", slope_db |-> RInt(-2), intercept_db |-> RInt(0)]}
    \cup {[tag |-> "dict", slope_db |-> m, intercept_db |-> RInt(0), r_squared |-> r] :
             m \in SlopeValues, r \in RSquaredValues}

\* profiles for the feedback rules: small sums, and sums around the saturation threshold
FeedbackProfiles ==
    {None}
    \cup {Arr(1, v) : v \in SeqsUpTo(0..MaxSample, MaxLen)}
    \cup UNION {{Arr(1, v) : v \in [1..n -> (arbitrary_saturation_threshold - 1)
                                             ..(arbitrary_saturation_threshold + 1)]}
                   : n \in {2, 3}}

\* sequences to smooth, the one of the smoothing example among them, and window
\* sizes below 1, even, odd, and longer than every sequence but the example
SmoothingInputs ==
    {Arr(1, v) : v \in SeqsUpTo(0..MaxSample, MaxLen)} \cup {Arr(1, <<1, 3, 5, 7, 9>>)}

WindowSizes == (-2)..(MaxLen + 2)

\* lines to evaluate against the dB arrays: slopes 0 and -3, intercepts 0 and -3
FitLines ==
    {[tag |-> "dict", slope_db |-> RInt(m), intercept_db |-> RInt(b)] :
        m \in {0, -3}, b \in {0, -3}}

-----------------------------------------------------------------------------
(* SpecCalls: one library call on enumerated arguments *)

Idle == [fn |-> "idle"]

CallGetIntensityProfile ==
    /\ call = Idle
    /\ \E a \in RoiArrays :
          call' = [fn |-> "get_intensity_profile", roi_image_data |-> a,
                   result |-> get_intensity_profile(a)]
    /\ UNCHANGED appVars

CallCalculateDbProfile ==
    /\ call = Idle
    /\ \E p \in Profiles :
          call' = [fn |-> "calculate_db_profile", intensity_profile |-> p,
                   result |-> calculate_db_profile(p)]
    /\ UNCHANGED appVars

CallFitLinearDb ==
    /\ call = Idle
    /\ \E x \in {None} \cup Positions, y \in {None} \cup DbArrays :
          call' = [fn |-> "fit_linear_db", x_data |-> x, profile_db |-> y,
                   result |-> fit_linear_db(x, y)]
    /\ UNCHANGED appVars

CallMovingAverage ==
    /\ call = Idle
    /\ \E data \in SmoothingInputs, window_size \in WindowSizes :
          LET r == moving_average(data, window_size)
          IN  call' = [fn |-> "moving_average", data |-> data, window_size |-> window_size,
                       result |-> r.value, warned |-> r.warned]
    /\ UNCHANGED appVars

CallRSquaredLinear ==
    /\ call = Idle
    /\ \E x \in Positions, y \in DbArrays, fp \in FitLines :
          call' = [fn |-> "calculate_r_squared_linear", x_data |-> x, y_data |-> y,
                   fit_params |-> fp, result |-> calculate_r_squared_linear(x, y, fp)]
    /\ UNCHANGED appVars

\* lines 213 and 216 of _analyze_action: the fit, then R2 of the fit on the same arrays
CallFitAndRSquared ==
    /\ call = Idle
    /\ \E x \in Positions \cup {Vec(<<RInt(0), RInt(1), RInt(2), RInt(3)>>)},
          y \in DbArrays \cup {Vec(<<RInt(0), RInt(-2), RInt(-4), RInt(-6)>>)} :
          LET fit == fit_linear_db(x, y)
          IN  call' = [fn |-> "fit_linear_db, calculate_r_squared_linear",
                       x_data |-> x, profile_db |-> y, fit |-> fit,
                       r_squared |-> IF IsRaise(fit) THEN None
                                     ELSE calculate_r_squared_linear(x, y, fit)]
    /\ UNCHANGED appVars

CallGenerateFeedback ==
    /\ call = Idle
    /\ \E fp \in FitDicts, p \in FeedbackProfiles :
          call' = [fn |-> "generate_feedback", fit_params |-> fp, intensity_profile |-> p,
                   result |-> generate_feedback(fp, p, None)]
    /\ UNCHANGED appVars

-----------------------------------------------------------------------------
(* config.py, display settings *)

MAX_DISPLAY_WIDTH == 1200

MAX_DISPLAY_HEIGHT == 800

MIN_ZOOM_LEVEL == Rat(1, 10)

ZOOM_FACTOR == Rat(6, 5)

-----------------------------------------------------------------------------
(* image_canvas.py *)

\* Python int(): truncation toward zero
PyInt(p) == IF p[1] >= 0 THEN p[1] \div p[2] ELSE -((-p[1]) \div p[2])

RMin(p, q) == IF RLt(q, p) THEN q ELSE p

IntMax(a, b) == IF a > b THEN a ELSE b

IntMin(a, b) == IF a < b THEN a ELSE b

\* _prepare_display_image: the display image's size and display_scale_factor
PrepareDisplayImage(img) ==
    IF img.w > MAX_DISPLAY_WIDTH \/ img.h > MAX_DISPLAY_HEIGHT
    THEN LET scale == RMin(Rat(MAX_DISPLAY_WIDTH, img.w), Rat(MAX_DISPLAY_HEIGHT, img.h))
             display_width == PyInt(RMul(RInt(img.w), scale))
             display_height == PyInt(RMul(RInt(img.h), scale))
         IN  [size |-> [tag |-> "image", w |-> display_width, h |-> display_height],
              factor |-> Rat(img.w, display_width)]
    ELSE [size |-> [tag |-> "image", w |-> img.w, h |-> img.h], factor |-> RInt(1)]

\* redraw_canvas: the size of the zoomed image, which is the canvas scroll region
ZoomedSize(disp, zoom) ==
    [w |-> IntMax(1, PyInt(RMul(RInt(disp.w), zoom))),
     h |-> IntMax(1, PyInt(RMul(RInt(disp.h), zoom)))]

\* canvas coordinates a pointer event can carry: the scroll region and one pixel
\* around it (the pointer may leave the image while button 1 is held)
\* the coordinates along one axis of a scroll region n wide: all of them, or for a
\* wide region both ends with their neighbours and the middle
EventCoords(n) ==
    IF n <= MaxCanvas THEN -1..(n + 1)
    ELSE {-1, 0, 1, n \div 2, n - 1, n, n + 1}

EventXs ==
    IF IsNone(display_image_obj) THEN -1..1
    ELSE EventCoords(ZoomedSize(display_image_obj, canvas_zoom_level).w)

EventYs ==
    IF IsNone(display_image_obj) THEN -1..1
    ELSE EventCoords(ZoomedSize(display_image_obj, canvas_zoom_level).h)

\* lines 192-217 without the min() of line 215
CanvasToOriginal_unclamped(sx, sy, ex, ey, zoom, factor, img) ==
    LET canvas_x1 == IntMin(sx, ex)
        canvas_y1 == IntMin(sy, ey)
        canvas_x2 == IntMax(sx, ex)
        canvas_y2 == IntMax(sy, ey)
        disp_x1 == RDiv(RInt(canvas_x1), zoom)
        disp_y1 == RDiv(RInt(canvas_y1), zoom)
        disp_x2 == RDiv(RInt(canvas_x2), zoom)
        disp_y2 == RDiv(RInt(canvas_y2), zoom)
    IN  <<IntMax(0, PyInt(RMul(disp_x1, factor))),
          IntMax(0, PyInt(RMul(disp_y1, factor))),
          PyInt(RMul(disp_x2, factor)),
          IntMin(img.h, PyInt(RMul(disp_y2, factor)))>>

\* _on_button_release, lines 192-217: canvas rectangle -> clamped original coordinates
CanvasToOriginal(sx, sy, ex, ey, zoom, factor, img) ==
    LET canvas_x1 == IntMin(sx, ex)
        canvas_y1 == IntMin(sy, ey)
        canvas_x2 == IntMax(sx, ex)
        canvas_y2 == IntMax(sy, ey)
        disp_x1 == RDiv(RInt(canvas_x1), zoom)
        disp_y1 == RDiv(RInt(canvas_y1), zoom)
        disp_x2 == RDiv(RInt(canvas_x2), zoom)
        disp_y2 == RDiv(RInt(canvas_y2), zoom)
    IN  <<IntMax(0, PyInt(RMul(disp_x1, factor))),
          IntMax(0, PyInt(RMul(disp_y1, factor))),
          IntMin(img.w, PyInt(RMul(disp_x2, factor))),
          IntMin(img.h, PyInt(RMul(disp_y2, factor)))>>

\* np.array(original_image.crop(roi_coords)): rows y1..y2-1, columns x1..x2-1
Crop(img, c) ==
    Arr2(c[4] - c[2], c[3] - c[1],
         [r \in 1..(c[4] - c[2]) |-> [j \in 1..(c[3] - c[1]) |-> img.px[c[2] + r][c[1] + j]]])

get_roi_data ==
    IF ~IsNone(roi_coords) /\ ~IsNone(original_image)
    THEN Crop(original_image, roi_coords.c)
    ELSE None

get_roi_width_pixels ==
    IF ~IsNone(roi_coords) THEN roi_coords.c[3] - roi_coords.c[1] ELSE 0

-----------------------------------------------------------------------------
(* app.py: state updates shared by the handlers *)

\* no _analyze_action has run since the results were cleared
NoRun == [tag |-> "None"]

\* _clear_results, followed by a later info_text_update(info) of the same handler
ClearResults(info) ==
    /\ run' = NoRun
    /\ fit_params' = None
    /\ intensity_profile' = None
    /\ intensity_profile_db' = None
    /\ valid_db_indices' = None
    /\ smoothed_profile' = None
    /\ smoothed_profile_db' = None
    /\ x_data' = None
    /\ info_text' = info
    /\ lbl_plot_status' = "will_be_saved"

\* reset_roi with a status callback that clears the results and leaves the button
RoiCleared_button_kept(info) ==
    /\ roi_coords' = None
    /\ UNCHANGED btn_analyze
    /\ ClearResults(info)

\* reset_roi with a status callback that only disables the button
RoiCleared_keep_results(info) ==
    /\ roi_coords' = None
    /\ btn_analyze' = "disabled"
    /\ UNCHANGED resultVars

\* ImageCanvas.reset_roi, lines 80 and 86-87: roi_coords and status_callback(roi_defined=False)
RoiCleared(info) ==
    /\ roi_coords' = None
    /\ btn_analyze' = "disabled"
    /\ ClearResults(info)

\* ImageCanvas.reset_roi
ResetRoi(info) ==
    /\ RoiCleared(info)
    /\ roi_rect_id' = FALSE
    /\ start_xy' = None

SelectRoiText == Text("Select ROI and click Analyze.")


-----------------------------------------------------------------------------
(* app.py: _analyze_action, lines 179-248.  The try block is a chain of steps over *)
(* a record of the attributes and locals it assigns; a step that raises sets exc   *)
(* and every later step is skipped.                                                *)

Invoke(s, stage) == [s EXCEPT !.stages = Append(@, stage)]

Raised(s, exc, msg) == [s EXCEPT !.exc = exc, !.msg = msg]

\* np.linspace(0, length, n) for n >= 2
Linspace(length, n) == Vec([i \in 1..n |-> RDiv(RMul(length, RInt(i - 1)), RInt(n - 1))])

\* x_data[:len(valid_db_indices)]: the first positions instead of the selected ones
IndexBy_prefix(x, idx) == Vec([k \in 1..Len(idx.v) |-> x.v[k]])

\* x_data[valid_db_indices]
IndexBy(x, idx) == Vec([k \in 1..Len(idx.v) |-> x.v[idx.v[k] + 1]])

\* the values the try block starts from
TryStart ==
    [exc |-> "None", msg |-> "", stages |-> <<>>,
     roi_data |-> None, x_data_db |-> None, r_squared |-> None, feedback |-> None,
     fit_call |-> None, r2_call |-> None,
     intensity_profile |-> intensity_profile, x_data |-> x_data,
     intensity_profile_db |-> intensity_profile_db, valid_db_indices |-> valid_db_indices,
     smoothed_profile |-> smoothed_profile, smoothed_profile_db |-> smoothed_profile_db,
     fit_params |-> fit_params]

\* 1. Get Data without the len(intensity_profile) < 2 test of line 186
StepGetData_any_length(s0) ==
    LET s1 == [Invoke(s0, "get_roi_data") EXCEPT !.roi_data = get_roi_data]
    IN  IF IsNone(s1.roi_data)
        THEN Raised(s1, "ValueError", "Could not extract data from ROI.")
        ELSE LET s2 == [Invoke(s1, "get_intensity_profile") EXCEPT
                           !.intensity_profile = get_intensity_profile(s1.roi_data)]
             IN  IF IsNone(s2.intensity_profile)
                 THEN Raised(s2, "ValueError",
                             "Intensity profile is empty or too short after processing.")
                 ELSE s2

\* 1. Get Data, lines 181-187
StepGetData(s0) ==
    LET s1 == [Invoke(s0, "get_roi_data") EXCEPT !.roi_data = get_roi_data]
    IN  IF IsNone(s1.roi_data)
        THEN Raised(s1, "ValueError", "Could not extract data from ROI.")
        ELSE LET s2 == [Invoke(s1, "get_intensity_profile") EXCEPT
                           !.intensity_profile = get_intensity_profile(s1.roi_data)]
             IN  IF IsNone(s2.intensity_profile) \/ PyLen(s2.intensity_profile) < 2
                 THEN Raised(s2, "ValueError",
                             "Intensity profile is empty or too short after processing.")
                 ELSE s2

\* 2. Prepare X data, lines 190-194
StepXData(s, length) ==
    IF s.exc # "None" THEN s
    ELSE LET roi_width_pixels ==
                 IF get_roi_width_pixels # PyLen(s.intensity_profile)
                 THEN PyLen(s.intensity_profile)
                 ELSE get_roi_width_pixels
         IN  [Invoke(s, "linspace") EXCEPT !.x_data = Linspace(length, roi_width_pixels)]

\* 3. Normalize and Convert to dB, lines 197-201
StepDb(s) ==
    IF s.exc # "None" THEN s
    ELSE LET r == calculate_db_profile(s.intensity_profile)
             s1 == [Invoke(s, "calculate_db_profile") EXCEPT
                       !.intensity_profile_db = r[1], !.valid_db_indices = r[2]]
         IN  IF IsNone(s1.intensity_profile_db)
             THEN Raised(s1, "ValueError", "Could not convert intensity profile to dB.")
             ELSE [s1 EXCEPT !.x_data_db = IndexBy(s1.x_data, s1.valid_db_indices)]

\* step 4 with the smoothed profile taking the place of the profile that is fitted
StepSmoothW_fitted(s, window) ==
    IF s.exc # "None" THEN s
    ELSE IF window > 1
    THEN LET s1 == [Invoke(s, "moving_average") EXCEPT
                       !.smoothed_profile =
                           moving_average(s.intensity_profile, window).value]
             r == calculate_db_profile(s1.smoothed_profile)
         IN  [Invoke(s1, "calculate_db_profile") EXCEPT
                 !.smoothed_profile_db = r[1],
                 !.intensity_profile_db = r[1],
                 !.valid_db_indices = r[2],
                 !.x_data_db = IndexBy(s1.x_data, r[2])]
    ELSE [s EXCEPT !.smoothed_profile = None, !.smoothed_profile_db = None]

\* 4. Smooth raw data and convert smoothed to dB, lines 204-210, for a value
\* window of config.SMOOTHING_WINDOW
StepSmoothW(s, window) ==
    IF s.exc # "None" THEN s
    ELSE IF window > 1
    THEN LET s1 == [Invoke(s, "moving_average") EXCEPT
                       !.smoothed_profile =
                           moving_average(s.intensity_profile, window).value]
         IN  [Invoke(s1, "calculate_db_profile") EXCEPT
                 !.smoothed_profile_db = calculate_db_profile(s1.smoothed_profile)[1]]
    ELSE [s EXCEPT !.smoothed_profile = None, !.smoothed_profile_db = None]

StepSmooth(s) == StepSmoothW(s, SMOOTHING_WINDOW)

\* 5. Fit Linear Model to dB Data, line 213
StepFit(s) ==
    IF s.exc # "None" THEN s
    ELSE LET r == fit_linear_db(s.x_data_db, s.intensity_profile_db)
             s1 == [Invoke(s, "fit_linear_db") EXCEPT
                       !.fit_call = [tag |-> "call", x |-> s.x_data_db,
                                     y |-> s.intensity_profile_db]]
         IN  IF IsRaise(r)
             THEN Raised(s1, r.exc, "Insufficient or mismatched data for linear dB fitting.")
             ELSE [s1 EXCEPT !.fit_params = r]

\* fit_params['r_squared'] = r_squared if r_squared is not None else np.nan, lines 217-220
StoreRSquared(fit_params_, r_squared) ==
    [k \in DOMAIN fit_params_ \cup {"r_squared"} |->
        IF k = "r_squared"
        THEN (IF ~IsNone(r_squared) THEN r_squared.val ELSE NaN)
        ELSE fit_params_[k]]

\* 6. Calculate R-squared, lines 216-220
StepRSquared(s) ==
    IF s.exc # "None" THEN s
    ELSE LET r == calculate_r_squared_linear(s.x_data_db, s.intensity_profile_db,
                                             s.fit_params)
         IN  [Invoke(s, "calculate_r_squared_linear") EXCEPT
                 !.r2_call = [tag |-> "call", x |-> s.x_data_db,
                              y |-> s.intensity_profile_db],
                 !.r_squared = r, !.fit_params = StoreRSquared(s.fit_params, r)]

\* 7. Generate Results String and Feedback, lines 224-231
StepFeedback(s) ==
    IF s.exc # "None" THEN s
    ELSE LET r == generate_feedback(s.fit_params, s.intensity_profile, s.x_data)
             s1 == Invoke(s, "generate_feedback")
         IN  IF IsRaise(r)
             THEN Raised(s1, r.exc, "zero-size array to reduction operation maximum")
             ELSE [s1 EXCEPT !.feedback = r]

\* 8. Plot Results, lines 235-246
StepPlot(s) == IF s.exc # "None" THEN s ELSE Invoke(s, "plot_analysis")

\* the try block as it runs with config.SMOOTHING_WINDOW = window
TryBlockW(length, window) ==
    StepPlot(StepFeedback(StepRSquared(StepFit(StepSmoothW(StepDb(
        StepXData(StepGetData(TryStart), length)), window)))))

TryBlock(length) ==
    StepPlot(StepFeedback(StepRSquared(StepFit(StepSmooth(StepDb(
        StepXData(StepGetData(TryStart), length)))))))

\* lines 216-229 of _analyze_action on enumerated arrays: steps 6 and 7 of the try
\* block, entered with the fit of step 5 in fit_params
CallRSquaredSteps ==
    /\ call = Idle
    /\ \E x \in {None} \cup Positions, y \in {None} \cup DbArrays,
          fp \in {f \in FitDicts : DOMAIN f = {"tag", "slope_db", "intercept_db"}},
          p \in {Arr(1, <<2, 1>>)} :
          LET s == StepFeedback(StepRSquared(
                       [TryStart EXCEPT !.x_data_db = x, !.intensity_profile_db = y,
                                        !.fit_params = fp, !.intensity_profile = p]))
          IN  call' = [fn |-> "_analyze_action steps 6-7", x_data_db |-> x,
                       intensity_profile_db |-> y, r_squared |-> s.r_squared,
                       fit_params |-> s.fit_params, feedback |-> s.feedback]
    /\ UNCHANGED appVars

-----------------------------------------------------------------------------
(* The images that can be loaded: every one-row image of up to MaxCols pixels, *)
(* and three larger ones (two rows; wide enough for the smoothing window)      *)

OneRowImages ==
    UNION {{Arr2(1, w, <<row>>) : row \in [1..w -> Pixels]} : w \in 1..MaxCols}

LargerImages ==
    {Arr2(2, 3, <<(<<1, 0, 2>>), (<<1, 0, 1>>)>>),
     Arr2(2, 4, <<(<<2, 1, 1, 0>>), (<<2, 1, 0, 0>>)>>),
     Arr2(1, 6, <<(<<0, 2, 0, 1, 2, 1>>)>>)}

Images == OneRowImages \cup LargerImages

\* images larger than the display limits, known by their size only: one scaled by
\* 2 on both axes, one limited by its width, one limited by its height
LargeImages ==
    {[tag |-> "array2", h |-> sz[2], w |-> sz[1]] :
        sz \in {<<2 * MAX_DISPLAY_WIDTH, 2 * MAX_DISPLAY_HEIGHT>>,
                <<3000, MAX_DISPLAY_HEIGHT + 1>>,
                <<MAX_DISPLAY_WIDTH + 1, 900>>}}

\* what the length entry can hold: text float() rejects, or a number
LengthEntries ==
    {[is_float |-> FALSE, value |-> RInt(0)]}
    \cup {[is_float |-> TRUE, value |-> RInt(n)] : n \in 0..MaxLength}

RECURSIVE RPow(_, _)
RPow(p, k) == IF k = 0 THEN RInt(1) ELSE RMul(p, RPow(p, k - 1))

Tuple(c) == [tag |-> "tuple", c |-> c]

-----------------------------------------------------------------------------
(* Spec: the handlers of the application *)

\* _load_image_from_path, Image.open succeeds: lines 123-127 with ImageCanvas.load_image
LoadImage ==
    \E img \in Images :
        /\ original_image' = img
        /\ canvas_zoom_level' = RInt(1)
        /\ display_image_obj' = PrepareDisplayImage(img).size
        /\ display_scale_factor' = PrepareDisplayImage(img).factor
        /\ ResetRoi(Text("Image loaded. Select ROI."))
        /\ UNCHANGED <<call, mouse_down, failed_before>>

\* LoadImage for an image that _prepare_display_image scales down
LoadLargeImage ==
    \E img \in LargeImages :
        /\ original_image' = img
        /\ canvas_zoom_level' = RInt(1)
        /\ display_image_obj' = PrepareDisplayImage(img).size
        /\ display_scale_factor' = PrepareDisplayImage(img).factor
        /\ ResetRoi(Text("Image loaded. Select ROI."))
        /\ UNCHANGED <<call, mouse_down, failed_before>>

\* _load_image_from_path, Image.open raises: _clear_all, lines 128-139
LoadImageFails ==
    /\ original_image' = None
    /\ display_image_obj' = None
    /\ ResetRoi(SelectRoiText)
    /\ UNCHANGED <<call, display_scale_factor, canvas_zoom_level, mouse_down, failed_before>>

\* ImageCanvas._on_button_press
ButtonPress ==
    /\ ~mouse_down
    /\ mouse_down' = TRUE
    /\ \E ex \in EventXs, ey \in EventYs :
          IF IsNone(display_image_obj)
          THEN UNCHANGED <<roi_coords, roi_rect_id, start_xy, btn_analyze, resultVars>>
          ELSE /\ RoiCleared(SelectRoiText)
               /\ start_xy' = Tuple(<<ex, ey>>)
               /\ roi_rect_id' = TRUE
    /\ UNCHANGED <<call, original_image, display_image_obj, display_scale_factor,
                   canvas_zoom_level, failed_before>>

\* ImageCanvas._on_mouse_drag: only the rectangle drawn on the canvas moves
MouseDrag ==
    /\ mouse_down
    /\ UNCHANGED <<call, canvasVars, mouse_down, btn_analyze, resultVars, failed_before>>

\* ImageCanvas._on_button_release.  The handler leaves start_x and start_y set; they
\* are read again only after the next press has overwritten them, and the model
\* forgets them here.
ButtonRelease ==
    /\ mouse_down
    /\ mouse_down' = FALSE
    /\ \E ex \in EventXs, ey \in EventYs :
          IF ~roi_rect_id \/ IsNone(start_xy) \/ IsNone(original_image)
          THEN ResetRoi(SelectRoiText)
          ELSE LET c == CanvasToOriginal(start_xy.c[1], start_xy.c[2], ex, ey,
                                         canvas_zoom_level, display_scale_factor,
                                         original_image)
               IN  IF c[1] >= c[3] \/ c[2] >= c[4]
                   THEN ResetRoi(SelectRoiText)
                   ELSE /\ roi_coords' = Tuple(c)
                        /\ btn_analyze' = "normal"
                        /\ start_xy' = None
                        /\ UNCHANGED <<roi_rect_id, resultVars>>
    /\ UNCHANGED <<call, original_image, display_image_obj, display_scale_factor,
                   canvas_zoom_level, failed_before>>

\* redraw_canvas with _redraw_roi_rect: the rectangle is drawn again from roi_coords
Redrawn == roi_rect_id' = ~IsNone(roi_coords)

\* ImageCanvas.zoom_in
ZoomIn ==
    /\ RLt(canvas_zoom_level, RPow(ZOOM_FACTOR, MaxZoom))
    /\ IF IsNone(display_image_obj)
       THEN UNCHANGED <<canvas_zoom_level, roi_rect_id>>
       ELSE /\ canvas_zoom_level' = RMul(canvas_zoom_level, ZOOM_FACTOR)
            /\ Redrawn
    /\ UNCHANGED <<call, original_image, display_image_obj, display_scale_factor,
                   roi_coords, start_xy, mouse_down, btn_analyze, resultVars, failed_before>>

\* ImageCanvas.zoom_out
ZoomOut ==
    /\ RGt(canvas_zoom_level, RDiv(RInt(1), RPow(ZOOM_FACTOR, MaxZoom)))
    /\ IF IsNone(display_image_obj)
       THEN UNCHANGED <<canvas_zoom_level, roi_rect_id>>
       ELSE LET next_zoom == RDiv(canvas_zoom_level, ZOOM_FACTOR)
            IN  /\ canvas_zoom_level' = IF RLt(next_zoom, MIN_ZOOM_LEVEL)
                                        THEN MIN_ZOOM_LEVEL
                                        ELSE next_zoom
                /\ Redrawn
    /\ UNCHANGED <<call, original_image, display_image_obj, display_scale_factor,
                   roi_coords, start_xy, mouse_down, btn_analyze, resultVars, failed_before>>

\* what _analyze_action did: its outcome, the stages it invoked and the values it
\* passed between them
RunTrace(length, s) ==
    [tag |-> "analyze", length |-> length, exc |-> s.exc, failed_before |-> failed_before,
     stages |-> s.stages, fit_call |-> s.fit_call, r2_call |-> s.r2_call,
     r_squared |-> s.r_squared]

\* the text of lines 224-230
FinalInfo(s) ==
    Str(<<[tag |-> "results", slope_db |-> s.fit_params.slope_db,
           intercept_db |-> s.fit_params.intercept_db,
           r_squared |-> s.fit_params.r_squared]>> \o s.feedback.msgs)

\* LightAnalyzerApp._analyze_action, the command of the Analyze button
Analyze ==
    /\ btn_analyze = "normal"
    /\ \E entry \in LengthEntries, saved \in BOOLEAN :
          IF IsNone(roi_coords)
          THEN UNCHANGED <<resultVars, failed_before>>     \* lines 164-166
          ELSE IF ~entry.is_float \/ RLe(entry.value, RInt(0))
          THEN UNCHANGED <<resultVars, failed_before>>     \* lines 168-174
          ELSE \E s \in {TryBlock(entry.value)} :
                   /\ intensity_profile' = s.intensity_profile
                   /\ x_data' = s.x_data
                   /\ intensity_profile_db' = s.intensity_profile_db
                   /\ valid_db_indices' = s.valid_db_indices
                   /\ smoothed_profile' = s.smoothed_profile
                   /\ smoothed_profile_db' = s.smoothed_profile_db
                   /\ fit_params' = s.fit_params
                   /\ info_text' = IF s.exc = "None"
                                   THEN FinalInfo(s)
                                   ELSE Str(<<[tag |-> "Analysis Input Error", msg |-> s.msg]>>)
                   /\ lbl_plot_status' = IF s.exc # "None" THEN lbl_plot_status
                                         ELSE IF saved THEN "saved" ELSE "failed"
                   /\ run' = RunTrace(entry.value, s)
                   /\ failed_before' = (failed_before \/ s.exc # "None")
    /\ UNCHANGED <<call, canvasVars, mouse_down, btn_analyze>>

\* after LightAnalyzerApp.__init__
Init ==
    /\ call = [fn |-> "idle"]
    /\ original_image = None
    /\ display_image_obj = None
    /\ display_scale_factor = RInt(1)
    /\ canvas_zoom_level = RInt(1)
    /\ roi_coords = None
    /\ roi_rect_id = FALSE
    /\ start_xy = None
    /\ mouse_down = FALSE
    /\ btn_analyze = "disabled"
    /\ fit_params = None
    /\ intensity_profile = None
    /\ intensity_profile_db = None
    /\ valid_db_indices = None
    /\ smoothed_profile = None
    /\ smoothed_profile_db = None
    /\ x_data = None
    /\ info_text = Text("Load an image and select an ROI to begin.")
    /\ lbl_plot_status = "will_be_saved"
    /\ run = NoRun
    /\ failed_before = FALSE

Next ==
    \/ LoadImage
    \/ LoadImageFails
    \/ ButtonPress
    \/ MouseDrag
    \/ ButtonRelease
    \/ ZoomIn
    \/ ZoomOut
    \/ Analyze

Spec == Init /\ [][Next]_vars

NextCalls ==
    \/ CallGetIntensityProfile
    \/ CallCalculateDbProfile
    \/ CallFitLinearDb
    \/ CallGenerateFeedback
    \/ CallRSquaredSteps
    \/ CallMovingAverage
    \/ CallRSquaredLinear
    \/ CallFitAndRSquared

SpecCalls == Init /\ [][NextCalls]_vars

\* the handlers of ImageCanvas, on images of every display scale
NextCanvas ==
    \/ LoadImage
    \/ LoadLargeImage
    \/ LoadImageFails
    \/ ButtonPress
    \/ MouseDrag
    \/ ButtonRelease
    \/ ZoomIn
    \/ ZoomOut

SpecCanvas == Init /\ [][NextCanvas]_vars

-----------------------------------------------------------------------------
(* Properties of the analysis run (Spec) *)

\* the stages a run that completes invokes, in order
AllStages ==
    <<"get_roi_data", "get_intensity_profile", "linspace", "calculate_db_profile",
      "moving_average", "calculate_db_profile", "fit_linear_db",
      "calculate_r_squared_linear", "generate_feedback", "plot_analysis">>

\* the arrays of a fitter or R2 call are the dB values of the run, each with the
\* position of the original index it was computed from
Paired(c) ==
    /\ Len(c.x.v) = Len(valid_db_indices.v)
    /\ Len(c.y.v) = Len(valid_db_indices.v)
    /\ \A k \in 1..Len(valid_db_indices.v) :
          /\ c.y.v[k] = intensity_profile_db.v[k]
          /\ c.x.v[k] = x_data.v[valid_db_indices.v[k] + 1]

\* C1: in every analysis run that reaches the fitter, the k-th dB value is the dB
\* of the profile sample at index valid_db_indices[k], and the fitter and the R2
\* evaluator are passed that k-th dB value together with x_data[valid_db_indices[k]]
C1_IndexCorrespondence ==
    (run.tag = "analyze" /\ ~IsNone(run.fit_call)) =>
        /\ Len(intensity_profile_db.v) = Len(valid_db_indices.v)
        /\ \A k \in 1..Len(valid_db_indices.v) :
              intensity_profile_db.v[k] =
                  Db10(intensity_profile.v[valid_db_indices.v[k] + 1],
                       IMax(intensity_profile.v))
        /\ Paired(run.fit_call)
        /\ (run.exc = "None" => ~IsNone(run.r2_call))
        /\ (~IsNone(run.r2_call) => Paired(run.r2_call))

\* C1 witness: a completed run whose profile lost its leading sample and an interior one
C1_DroppedSamples ==
    /\ run.tag = "analyze"
    /\ run.exc = "None"
    /\ valid_db_indices.v[1] > 0
    /\ \E k \in 1..(Len(valid_db_indices.v) - 1) :
          valid_db_indices.v[k + 1] > valid_db_indices.v[k] + 1

\* the text shown is the error message of a failed run and nothing else
ErrorShown ==
    /\ Len(info_text.msgs) = 1
    /\ info_text.msgs[1].tag = "Analysis Input Error"

\* a failed run invoked the first n stages and no other, and exposes neither fit
\* parameters nor feedback
StoppedAfter(n) ==
    /\ run.exc # "None"
    /\ run.stages = SubSeq(AllStages, 1, n)
    /\ IsNone(fit_params)
    /\ IsNone(run.r_squared)
    /\ ErrorShown

\* C4: a run whose extractor gives no profile or one shorter than 2, whose dB
\* normalization gives no result, or whose fitter raises, stops at that stage: no
\* later stage is invoked, fit_params stays None and the text shown is the error
\* alone; every other run, after a failed one or not, invokes all stages and
\* exposes its fit and feedback
C4_FailedRunStops ==
    run.tag = "analyze" =>
        IF IsNone(intensity_profile) THEN StoppedAfter(1)
        ELSE IF PyLen(intensity_profile) < 2 THEN StoppedAfter(2)
        ELSE IF IsNone(intensity_profile_db) THEN StoppedAfter(4)
        ELSE IF IsRaise(fit_linear_db(run.fit_call.x, run.fit_call.y)) THEN StoppedAfter(7)
        ELSE /\ run.exc = "None"
             /\ run.stages = AllStages
             /\ ~IsNone(fit_params)
             /\ "r_squared" \in DOMAIN fit_params
             /\ info_text.msgs[1].tag = "results"
             /\ Len(info_text.msgs) >= 3

\* C4 witness: a run that completes after an earlier run has failed
C4_CompletesAfterFailure ==
    /\ run.tag = "analyze"
    /\ run.exc = "None"
    /\ run.failed_before
    /\ run.stages = AllStages

-----------------------------------------------------------------------------
(* Properties of the library functions (SpecCalls) *)

\* C2: when calculate_db_profile returns arrays for a profile of length n, the dB
\* array and the index array have the same length, the indices increase strictly
\* within 0..n-1, and index i is among them exactly when sample i / peak > 1e-9
C2_ValidIndices ==
    (call.fn = "calculate_db_profile" /\ ~IsNone(call.result[1])) =>
        LET v == call.intensity_profile.v
            n == Len(v)
            db == call.result[1].v
            idx == call.result[2].v
        IN  /\ Len(db) = Len(idx)
            /\ \A k \in 1..Len(idx) : idx[k] \in 0..(n - 1)
            /\ \A k \in 1..(Len(idx) - 1) : idx[k] < idx[k + 1]
            /\ \A i \in 0..(n - 1) :
                  (\E k \in 1..Len(idx) : idx[k] = i) <=> (v[i + 1] > IMax(v) \div Nano)

\* C2 witness: a profile with a sample at or below 1e-9 of the peak between kept ones
C2_SampleFilteredOut ==
    /\ call.fn = "calculate_db_profile"
    /\ ~IsNone(call.result[1])
    /\ Len(call.result[2].v) >= 2
    /\ \E i \in 1..Len(call.intensity_profile.v) :
          /\ call.intensity_profile.v[i] > 0
          /\ call.intensity_profile.v[i] <= IMax(call.intensity_profile.v) \div Nano

\* C3: fit_linear_db raises ValueError, and returns nothing, whenever an input is
\* None, the inputs differ in length or there are fewer than 2 points
C3_FitRaises ==
    (/\ call.fn = "fit_linear_db"
     /\ \/ IsNone(call.x_data)
        \/ IsNone(call.profile_db)
        \/ PyLen(call.x_data) # PyLen(call.profile_db)
        \/ PyLen(call.x_data) < 2)
    => call.result = Raise("ValueError")

\* C3 witness: one position and one dB value, and the call raised
C3_SinglePointRaised ==
    /\ call.fn = "fit_linear_db"
    /\ ~IsNone(call.x_data)
    /\ ~IsNone(call.profile_db)
    /\ PyLen(call.x_data) = 1
    /\ PyLen(call.profile_db) = 1
    /\ IsRaise(call.result)

\* C5: calculate_db_profile returns (None, None) when the profile is None or
\* empty and when its maximum is <= 1e-9
C5_NoResult ==
    (/\ call.fn = "calculate_db_profile"
     /\ \/ IsNone(call.intensity_profile)
        \/ PyLen(call.intensity_profile) = 0
        \/ IMax(call.intensity_profile.v) <= call.intensity_profile.scale \div Nano)
    => call.result = <<None, None>>

\* C5 witness: a profile whose maximum is exactly 1e-9, refused
C5_PeakAtThreshold ==
    /\ call.fn = "calculate_db_profile"
    /\ ~IsNone(call.intensity_profile)
    /\ PyLen(call.intensity_profile) >= 2
    /\ call.intensity_profile.scale = Nano
    /\ IMax(call.intensity_profile.v) = 1
    /\ call.result = <<None, None>>

\* the sum of column j over rows i..Len(px)
RECURSIVE ColumnSum(_, _, _)
ColumnSum(px, j, i) == IF i > Len(px) THEN 0 ELSE px[i][j] + ColumnSum(px, j, i + 1)

\* C6: for an array of h >= 1 rows and w >= 1 columns get_intensity_profile
\* returns w values, the j-th the sum of column j over all rows
C6_ColumnSums ==
    (/\ call.fn = "get_intensity_profile"
     /\ ~IsNone(call.roi_image_data)
     /\ call.roi_image_data.h >= 1
     /\ call.roi_image_data.w >= 1)
    => /\ ~IsNone(call.result)
       /\ call.result.scale = 1
       /\ Len(call.result.v) = call.roi_image_data.w
       /\ \A j \in 1..call.roi_image_data.w :
             call.result.v[j] = ColumnSum(call.roi_image_data.px, j, 1)

\* C6 witness: [[1,2,3],[4,5,6]] gave [5,7,9]
C6_Example ==
    /\ call.fn = "get_intensity_profile"
    /\ call.roi_image_data = Arr2(2, 3, <<(<<1, 2, 3>>), (<<4, 5, 6>>)>>)
    /\ call.result = Arr(1, <<5, 7, 9>>)

\* generate_feedback was called with both keys in fit_params and a profile that
\* is not empty: it went through its rules
RulesApplied ==
    /\ call.fn = "generate_feedback"
    /\ "r_squared" \in DOMAIN call.fit_params
    /\ "slope_db" \in DOMAIN call.fit_params
    /\ ~IsNone(call.intensity_profile)
    /\ PyLen(call.intensity_profile) > 0

\* the messages of the report that carry one of the tags
Tagged(msgs, tags) == {i \in 1..Len(msgs) : msgs[i].tag \in tags}

\* C7: with r_squared at or above the threshold, a slope that is not near zero,
\* no high noise and no saturation, the report of generate_feedback is the single
\* message "Analysis complete. Fit appears reasonable based on R2 and slope."
C7_ReasonableMessage ==
    (/\ RulesApplied
     /\ RLe(INFO_R_SQUARED_THRESHOLD, call.fit_params.r_squared)
     /\ RLe(INFO_SLOPE_NEAR_ZERO_THRESHOLD, RAbs(call.fit_params.slope_db))
     /\ ~(PyLen(call.intensity_profile) > 1 /\ HighNoise(call.intensity_profile))
     /\ ~Saturated(call.intensity_profile))
    => call.result = Text("Analysis complete. Fit appears reasonable based on R2 and slope.")

C9_OneFitQualityMessage ==
    RulesApplied =>
        LET msgs == call.result.msgs
            r_squared == call.fit_params.r_squared
        IN  /\ Cardinality(Tagged(msgs, {"poor_fit", "good_fit"})) = 1
            /\ IF ~IsNaN(r_squared)
                  /\ r_squared[1] * INFO_R_SQUARED_THRESHOLD[2]
                         < INFO_R_SQUARED_THRESHOLD[1] * r_squared[2]
               THEN Tagged(msgs, {"poor_fit"}) # {}
               ELSE Tagged(msgs, {"good_fit"}) # {}

\* C9 witness: r_squared equal to the threshold, reported as a good fit
C9_AtThreshold ==
    /\ RulesApplied
    /\ call.fit_params.r_squared = INFO_R_SQUARED_THRESHOLD
    /\ Tagged(call.result.msgs, {"good_fit"}) # {}

\* C10: for a slope that is a number the report holds exactly one slope message:
\* near-zero when |slope| < INFO_SLOPE_NEAR_ZERO_THRESHOLD, else gain when
\* slope > 0, else loss, whose loss coefficient is -slope and is > 0
C10_OneSlopeMessage ==
    (RulesApplied /\ ~IsNaN(call.fit_params.slope_db)) =>
        LET msgs == call.result.msgs
            slope == call.fit_params.slope_db
            kind == IF Abs(slope[1]) * INFO_SLOPE_NEAR_ZERO_THRESHOLD[2]
                          < INFO_SLOPE_NEAR_ZERO_THRESHOLD[1] * slope[2]
                    THEN "near_zero"
                    ELSE IF slope[1] > 0 THEN "gain" ELSE "loss"
        IN  /\ Cardinality(Tagged(msgs, {"near_zero", "gain", "loss"})) = 1
            /\ Tagged(msgs, {kind}) # {}
            /\ \A i \in Tagged(msgs, {"loss"}) :
                  /\ msgs[i].loss_alpha_db = <<-slope[1], slope[2]>>
                  /\ msgs[i].loss_alpha_db[1] > 0

\* C10 witness: a slope of minus the threshold, reported as a loss
C10_LossAtThreshold ==
    /\ RulesApplied
    /\ call.fit_params.slope_db = RNeg(INFO_SLOPE_NEAR_ZERO_THRESHOLD)
    /\ Tagged(call.result.msgs, {"loss"}) # {}

\* len >= 2, range > 1e-9 and std(diff) / range > 0.5, the last one in integers:
\* with m differences d,  4 * (m * sum(d^2) - sum(d)^2) > m^2 * range^2
NoiseCondition(profile) ==
    LET v == profile.v
        d == Diff(v)
        m == Len(d)
        range == IMax(v) - IMin(v)
    IN  /\ Len(v) >= 2
        /\ range > profile.scale \div Nano
        /\ 4 * (m * ISum([i \in 1..m |-> d[i] * d[i]]) - ISum(d) * ISum(d))
               > m * m * range * range

\* C11: the report is the fit-quality message, the slope message, the noise
\* message exactly when the profile has >= 2 samples, range > 1e-9 and
\* std(diff)/range > 0.5, and the saturation message exactly when
\* max(profile) >= 60000, in this order and whatever the other rules did
C11_RulesIndependent ==
    RulesApplied =>
        LET msgs == call.result.msgs
            p == call.intensity_profile
            noise == IF NoiseCondition(p) THEN <<"high_noise">> ELSE <<>>
            sat == IF IMax(p.v) >= arbitrary_saturation_threshold * p.scale
                   THEN <<"saturation">> ELSE <<>>
        IN  /\ Len(msgs) = 2 + Len(noise) + Len(sat)
            /\ msgs[1].tag \in {"poor_fit", "good_fit"}
            /\ msgs[2].tag \in {"near_zero", "gain", "loss"}
            /\ [i \in 1..(Len(msgs) - 2) |-> msgs[i + 2].tag] = noise \o sat

\* C11 witness: a poor fit with a near-zero slope on a noisy, saturated profile:
\* all four rules fire
C11_AllRulesFire ==
    /\ RulesApplied
    /\ Len(call.result.msgs) = 4
    /\ call.result.msgs[1].tag = "poor_fit"
    /\ call.result.msgs[2].tag = "near_zero"
    /\ call.result.msgs[3].tag = "high_noise"
    /\ call.result.msgs[4].tag = "saturation"

\* two float arrays hold the same samples
SameSamples(a, b) ==
    /\ Len(a.v) = Len(b.v)
    /\ \A i \in 1..Len(a.v) : a.v[i] * b.scale = b.v[i] * a.scale

\* C12: with a window of 1, an even window, a window < 1, or a sequence shorter
\* than the window, moving_average returns the samples of its input; the warning
\* is printed exactly for the even and the < 1 windows
C12_PassThrough ==
    call.fn = "moving_average" =>
        LET w == call.window_size
            invalid == w < 1 \/ (w >= 1 /\ w % 2 = 0)
        IN  /\ (w = 1 \/ invalid \/ Len(call.data.v) < w) => SameSamples(call.result, call.data)
            /\ call.warned <=> invalid

\* C12 witness: an even window on a sequence at least as long, returned as it was
\* with the warning
C12_EvenWindow ==
    /\ call.fn = "moving_average"
    /\ call.window_size = 2
    /\ Len(call.data.v) >= 2
    /\ call.warned
    /\ call.result = call.data

\* the sample at 0-based position k, positions outside the sequence taking the
\* nearest edge
Clamped(v, k) == IF k < 0 THEN v[1] ELSE IF k > Len(v) - 1 THEN v[Len(v)] ELSE v[k + 1]

RECURSIVE WindowSum(_, _, _)
WindowSum(v, lo, hi) == IF lo > hi THEN 0 ELSE Clamped(v, lo) + WindowSum(v, lo + 1, hi)

\* C13: for an odd window w >= 1 and n >= w samples, moving_average returns n
\* values, the i-th the mean of the w samples at positions i - w//2 .. i + w//2
\* with positions outside 0..n-1 taking the first or the last sample
C13_BoxFilter ==
    (/\ call.fn = "moving_average"
     /\ call.window_size >= 1
     /\ call.window_size % 2 = 1
     /\ Len(call.data.v) >= call.window_size)
    => LET w == call.window_size
           v == call.data.v
           r == call.result
       IN  /\ Len(r.v) = Len(v)
           /\ \A i \in 0..(Len(v) - 1) :
                 r.v[i + 1] * call.data.scale * w
                     = r.scale * WindowSum(v, i - w \div 2, i + w \div 2)

\* C13 witness: w = 3 on [1,3,5,7,9] gave [5/3, 3, 5, 7, 25/3]
C13_Example ==
    /\ call.fn = "moving_average"
    /\ call.window_size = 3
    /\ call.data = Arr(1, <<1, 3, 5, 7, 9>>)
    /\ call.result = Arr(3, <<5, 9, 15, 21, 25>>)

\* the sum of squares of y[i] - (m * x[i] + b)
SSRes(x, y, m, b) ==
    RSum([i \in 1..Len(y) |->
             RMul(RSub(y[i], RAdd(RMul(m, x[i]), b)), RSub(y[i], RAdd(RMul(m, x[i]), b)))])

\* the sum of squares of y[i] - mean(y)
SSTot(y) ==
    LET mean == RDiv(RSum(y), RInt(Len(y)))
    IN  RSum([i \in 1..Len(y) |-> RMul(RSub(y[i], mean), RSub(y[i], mean))])

\* C14: for n >= 1 points calculate_r_squared_linear returns 1 - SS_res/SS_tot
\* when SS_tot > 1e-15, and when SS_tot <= 1e-15 (all values equal) 1.0 if SS_res
\* is 0 and 0.0 if it is not
C14_RSquaredValue ==
    (/\ call.fn = "calculate_r_squared_linear"
     /\ Len(call.x_data.v) = Len(call.y_data.v)
     /\ Len(call.x_data.v) >= 1)
    => LET ss_res == SSRes(call.x_data.v, call.y_data.v,
                           call.fit_params.slope_db, call.fit_params.intercept_db)
           ss_tot == SSTot(call.y_data.v)
       IN  call.result =
               IF ss_tot[1] > 0 THEN Float(RSub(RInt(1), RDiv(ss_res, ss_tot)))
               ELSE IF ss_res[1] = 0 THEN Float(RInt(1))
               ELSE Float(RInt(0))

\* C14 witness: three equal dB values and a line that misses them: 0.0
C14_ConstantMissed ==
    /\ call.fn = "calculate_r_squared_linear"
    /\ call.y_data = Vec(<<RInt(-3), RInt(-3), RInt(-3)>>)
    /\ Len(call.x_data.v) = 3
    /\ call.fit_params.slope_db = RInt(0)
    /\ call.fit_params.intercept_db = RInt(0)
    /\ call.result = Float(RInt(0))

\* C15: after every analysis run that completes, fit_params['r_squared'] is a
\* number in [0, 1]: the fitted line has SS_res <= SS_tot on the points it was
\* fitted to, and when SS_tot is 0 the value is exactly 1.0 or 0.0
C15_RSquaredInUnitInterval ==
    (run.tag = "analyze" /\ run.exc = "None") =>
        LET r == fit_params.r_squared
            ss_res == SSRes(run.fit_call.x.v, run.fit_call.y.v,
                            fit_params.slope_db, fit_params.intercept_db)
            ss_tot == SSTot(run.fit_call.y.v)
        IN  /\ ~IsNaN(r)
            /\ r[1] >= 0
            /\ r[1] <= r[2]
            /\ ss_res[1] * ss_tot[2] <= ss_tot[1] * ss_res[2]
            /\ (ss_tot[1] = 0 => r \in {RInt(1), RInt(0)})

\* C15 witness: a completed run whose r_squared is strictly between 0 and 1
C15_PartialFit ==
    /\ run.tag = "analyze"
    /\ run.exc = "None"
    /\ fit_params.r_squared[1] > 0
    /\ fit_params.r_squared[1] < fit_params.r_squared[2]

\* the line through the first two points
LineSlope(x, y) == RDiv(RSub(y[2], y[1]), RSub(x[2], x[1]))

LineIntercept(x, y) == RSub(y[1], RMul(LineSlope(x, y), x[1]))

\* C16: for n >= 2 points at distinct positions that all lie on the line
\* y = m*x + b, fit_linear_db returns slope m and intercept b, and
\* calculate_r_squared_linear returns 1.0 for that fit
C16_ExactLine ==
    (/\ call.fn = "fit_linear_db, calculate_r_squared_linear"
     /\ Len(call.x_data.v) = Len(call.profile_db.v)
     /\ Len(call.x_data.v) >= 2
     /\ \A i \in 1..Len(call.x_data.v) :
           call.profile_db.v[i]
               = RAdd(RMul(LineSlope(call.x_data.v, call.profile_db.v), call.x_data.v[i]),
                      LineIntercept(call.x_data.v, call.profile_db.v)))
    => /\ ~IsRaise(call.fit)
       /\ call.fit.slope_db = LineSlope(call.x_data.v, call.profile_db.v)
       /\ call.fit.intercept_db = LineIntercept(call.x_data.v, call.profile_db.v)
       /\ call.r_squared = Float(RInt(1))

\* C16 witness: positions [0,1,2,3] and values [0,-2,-4,-6] gave slope -2,
\* intercept 0 and r_squared 1
C16_Example ==
    /\ call.fn = "fit_linear_db, calculate_r_squared_linear"
    /\ call.x_data = Vec(<<RInt(0), RInt(1), RInt(2), RInt(3)>>)
    /\ call.profile_db = Vec(<<RInt(0), RInt(-2), RInt(-4), RInt(-6)>>)
    /\ call.fit.slope_db = RInt(-2)
    /\ call.fit.intercept_db = RInt(0)
    /\ call.r_squared = Float(RInt(1))

\* the values of config.SMOOTHING_WINDOW compared: below 1, 1, even, odd, and one
\* larger than every profile
ComparedWindows == WindowSizes \cup {SMOOTHING_WINDOW + 2}

\* C17: for the ROI and length of a run, the try block gives the same outcome,
\* slope, intercept, r_squared and feedback for every value of the smoothing
\* window, so a run that completes with one window completes with every other
C17_SmoothingInvariant ==
    run.tag = "analyze" =>
        \A window \in ComparedWindows :
            \E s \in {TryBlockW(run.length, window)} :
                /\ s.exc = run.exc
                /\ s.fit_params = fit_params
                /\ s.r_squared = run.r_squared
                /\ (run.exc = "None" => FinalInfo(s) = info_text)

\* C17 witness: a completed run whose profile was smoothed, and which completes
\* with the even window 2 as well
C17_SmoothedRun ==
    /\ run.tag = "analyze"
    /\ run.exc = "None"
    /\ smoothed_profile.scale = SMOOTHING_WINDOW
    /\ smoothed_profile.v # [i \in 1..Len(intensity_profile.v) |->
                                SMOOTHING_WINDOW * intensity_profile.v[i]]
    /\ TryBlockW(run.length, 2).exc = "None"

\* C18: when the peak of a profile is > 1e-9, calculate_db_profile returns
\* arrays (the "no positive samples" return of lines 52-54 is not taken), and
\* every position holding the peak is among the valid indices with a dB value of 0
C18_PeakIsValid ==
    (/\ call.fn = "calculate_db_profile"
     /\ ~IsNone(call.intensity_profile)
     /\ PyLen(call.intensity_profile) > 0
     /\ IMax(call.intensity_profile.v) > call.intensity_profile.scale \div Nano)
    => /\ ~IsNone(call.result[1])
       /\ ~IsNone(call.result[2])
       /\ \A i \in 1..PyLen(call.intensity_profile) :
             call.intensity_profile.v[i] = IMax(call.intensity_profile.v) =>
                 \E k \in 1..Len(call.result[2].v) :
                     /\ call.result[2].v[k] = i - 1
                     /\ call.result[1].v[k] = RInt(0)

\* C18 witness: a profile of several samples of which only the peak, which is
\* not 1.0, is kept
C18_OnlyPeakKept ==
    /\ call.fn = "calculate_db_profile"
    /\ ~IsNone(call.result[2])
    /\ PyLen(call.intensity_profile) >= 2
    /\ Len(call.result[2].v) = 1
    /\ IMax(call.intensity_profile.v) # call.intensity_profile.scale
    /\ call.result[1].v = <<RInt(0)>>

\* C19: whenever fit_params is not None, an image is loaded, an ROI is defined,
\* and the stored profile, positions, dB values and fit are those the try block
\* computes from the current ROI of the current image; whenever no ROI is
\* defined, fit_params and every stored intermediate array are None
C19_ResultsNotStale ==
    /\ ~IsNone(fit_params) =>
          /\ ~IsNone(original_image)
          /\ ~IsNone(roi_coords)
          /\ run.tag = "analyze"
          /\ run.exc = "None"
          /\ intensity_profile = get_intensity_profile(get_roi_data)
          /\ \E s \in {TryBlock(run.length)} :
                /\ s.exc = "None"
                /\ s.fit_params = fit_params
                /\ s.x_data = x_data
                /\ s.intensity_profile_db = intensity_profile_db
                /\ s.valid_db_indices = valid_db_indices
                /\ s.smoothed_profile = smoothed_profile
                /\ s.smoothed_profile_db = smoothed_profile_db
    /\ IsNone(roi_coords) =>
          /\ IsNone(fit_params)
          /\ IsNone(intensity_profile)
          /\ IsNone(intensity_profile_db)
          /\ IsNone(valid_db_indices)
          /\ IsNone(smoothed_profile)
          /\ IsNone(smoothed_profile_db)
          /\ IsNone(x_data)

\* C19 witness: a fit is stored for a part of a zoomed image, after an earlier
\* run on another ROI had failed
C19_FitOfCurrentRoi ==
    /\ ~IsNone(fit_params)
    /\ failed_before
    /\ canvas_zoom_level # RInt(1)
    /\ roi_coords.c[3] - roi_coords.c[1] < original_image.w

\* C20: after every completed handler the Analyze button is enabled if and only
\* if roi_coords is not None
C20_ButtonFollowsRoi == (btn_analyze = "normal") <=> ~IsNone(roi_coords)

\* C20 witness: a drag has been released on a loaded image and left an ROI, with
\* the button enabled
C20_ButtonEnabled ==
    /\ btn_analyze = "normal"
    /\ ~IsNone(roi_coords)
    /\ ~mouse_down
    /\ IsNone(fit_params)

-----------------------------------------------------------------------------
(* Properties of the ROI (SpecCanvas) *)

\* C21: roi_coords is None, or an image is loaded and roi_coords is (x1, y1, x2, y2)
\* with 0 <= x1 < x2 <= width and 0 <= y1 < y2 <= height of that image; the crop
\* then has at least one row and one column, and get_roi_width_pixels is the
\* length of the profile extracted from it
C21_RoiWithinImage ==
    IsNone(roi_coords) \/
        /\ ~IsNone(original_image)
        /\ LET c == roi_coords.c
           IN  /\ 0 <= c[1] /\ c[1] < c[3] /\ c[3] <= original_image.w
               /\ 0 <= c[2] /\ c[2] < c[4] /\ c[4] <= original_image.h
               /\ get_roi_width_pixels = c[3] - c[1]
        /\ "px" \in DOMAIN original_image =>
              /\ get_roi_data.h >= 1
              /\ get_roi_data.w >= 1
              /\ PyLen(get_intensity_profile(get_roi_data)) = get_roi_width_pixels

\* C21 witness: on a scaled-down image at a zoom level other than 1, a drag that
\* ended right of the image left an ROI that stops at the image's right edge
C21_ClampedOnScaledImage ==
    /\ ~IsNone(roi_coords)
    /\ display_scale_factor # RInt(1)
    /\ canvas_zoom_level # RInt(1)
    /\ roi_coords.c[1] > 0
    /\ roi_coords.c[3] = original_image.w
    /\ roi_coords.c[4] < original_image.h

====
